---- MODULE Spec2Model ----
(***************************************************************************)
(* Model of src/src/sym/code128.rs (Code128 barcode encoder).              *)
(*                                                                         *)
(* Texts are sequences of one-character strings.  A Unit is a record       *)
(* [set, sym] for Unit::A(sym), Unit::B(sym), Unit::C(sym).  Two Code128   *)
(* values are modelled so that properties relating two barcodes built      *)
(* from the same text can be stated.  A Unit symbol (a Rust String) is a   *)
(* sequence of one-character strings, like the input text.                 *)
(***************************************************************************)
EXTENDS Integers, Sequences, FiniteSets, TLC

\* ------------------------------------------------------------------ bounds
MaxLen == 2
MaxCalls == 2

\* ------------------------------------------------------------------ inputs
Alphabet == {"\\", "c", "1", "H"}

SampleTexts ==
    { <<"1", "2", "1", "2", "0">>,
      <<"1", "2", "0", "0", "1">>,
      <<"\\", "c", "1", "2", "3">>,
      <<"\\", "a", "H", "E", "\\", "c", "1", "2", "3", "4">> }

Texts == UNION { [1..n -> Alphabet] : n \in 0..MaxLen } \cup SampleTexts

Barcodes == {1, 2}

\* ------------------------------------------------------------------ data
A(s) == [set |-> "A", sym |-> s]
B(s) == [set |-> "B", sym |-> s]
C(s) == [set |-> "C", sym |-> s]

CODE128_CHARS_A ==
    << << <<"0">>, <<1,0,1,0,0,1,1,0,1,1,0>> >>,
       << <<"1">>, <<1,1,0,1,0,0,1,0,1,0,1>> >>,
       << <<"2">>, <<1,0,1,1,0,0,1,0,1,0,1>> >> >>

CODE128_CHARS_B ==
    << << <<"A">>, <<1,0,1,0,0,1,1,0,1,1,0>> >>,
       << <<"B">>, <<1,1,0,1,0,0,1,0,1,0,1>> >>,
       << <<"C">>, <<1,0,1,1,0,0,1,0,1,0,1>> >> >>

CODE128_CHARS_C ==
    << << <<"0","0">>, <<1,0,1,0,0,1,1,0,1,1,0>> >>,
       << <<"0","1">>, <<1,1,0,1,0,0,1,0,1,0,1>> >>,
       << <<"0","2">>, <<1,0,1,1,0,0,1,0,1,0,1>> >> >>

\* Result<T> and Option<T>
Ok(v) == [tag |-> "Ok", val |-> v]
Err(e) == [tag |-> "Err", val |-> e]
Some(v) == [tag |-> "Some", val |-> v]
None == [tag |-> "None"]
NotCalled == [tag |-> "NotCalled"]

\* ------------------------------------------------------------------ pure functions
parse_tags_B(chars) == Ok(<< B(<<"1">>), A(<<"2">>) >>)

parse(chars) == Ok(<< A(<<"1">>), A(<<"2">>) >>)

checksum_unit_none_on_short(units) ==
    IF Len(units) < 3 THEN None ELSE Some(C(<<"2", "3">>))

checksum_unit(units) == Some(C(<<"2", "3">>))

unit_encoding(c) == <<1,1,1,0,0,0,1,1,1,0,0>>

checksum_encoding(units) == unit_encoding(checksum_unit(units).val)

push_encoding(into, from) == (into \o from) \o <<0>>

RECURSIVE payload_loop(_, _, _)
payload_loop(units, k, enc) ==
    IF k > Len(units) THEN enc
    ELSE payload_loop(units, k + 1, push_encoding(enc, unit_encoding(units[k])))

payload(units) ==
    push_encoding(payload_loop(units, 1, <<0>>), checksum_encoding(units))

RECURSIVE join_slices(_)
join_slices(slices) ==
    IF slices = <<>> THEN <<>> ELSE Head(slices) \o join_slices(Tail(slices))

encode(units) == join_slices(<< payload(units) >>)

\* ------------------------------------------------------------------ state
VARIABLES bc

vars == << bc >>

Fresh ==
    [ data     |-> <<>>,          \* the String passed to Code128::new
      result   |-> "None",        \* "None" | "Ok" | "Length" | "Character"
      units    |-> <<>>,          \* self.0
      parsed   |-> <<>>,          \* what parse returned at construction
      rawRet   |-> NotCalled,     \* last value returned by raw_data()
      ckRet    |-> NotCalled,     \* last value returned by checksum_unit()
      encRet   |-> NotCalled,     \* last value returned by encode()
      encCalls |-> 0,
      panicked |-> FALSE ]

Init == bc = [i \in Barcodes |-> Fresh]

\* Code128::new(data)
New(i) ==
    /\ bc[i].result = "None"
    /\ \E data \in Texts :
         LET r == parse(data) IN
         bc' = [bc EXCEPT ![i] =
                  IF r.tag = "Ok"
                  THEN [@ EXCEPT !.data = data, !.result = "Ok",
                                 !.units = r.val, !.parsed = r.val]
                  ELSE [@ EXCEPT !.data = data, !.result = r.val]]

\* self.raw_data()
RawData(i) ==
    /\ bc[i].result = "Ok"
    /\ ~bc[i].panicked
    /\ bc' = [bc EXCEPT ![i].rawRet = Some(bc[i].units)]

\* self.checksum_unit()
ChecksumUnit(i) ==
    /\ bc[i].result = "Ok"
    /\ ~bc[i].panicked
    /\ bc' = [bc EXCEPT ![i].ckRet = checksum_unit(bc[i].units)]

Encode_stores_checksum(i) ==
    /\ bc[i].result = "Ok"
    /\ ~bc[i].panicked
    /\ bc[i].encCalls < MaxCalls
    /\ bc' = [bc EXCEPT ![i].encRet = Some(encode(bc[i].units)),
                        ![i].units = Append(@, checksum_unit(bc[i].units).val),
                        ![i].encCalls = @ + 1]

Encode_reuses_buffer(i) ==
    /\ bc[i].result = "Ok"
    /\ ~bc[i].panicked
    /\ bc[i].encCalls < MaxCalls
    /\ bc' = [bc EXCEPT ![i].encRet =
                            IF bc[i].encRet.tag = "Some"
                            THEN Some(bc[i].encRet.val \o encode(bc[i].units))
                            ELSE Some(encode(bc[i].units)),
                        ![i].encCalls = @ + 1]

\* self.encode(); panics in checksum_encoding when checksum_unit() is None
Encode(i) ==
    /\ bc[i].result = "Ok"
    /\ ~bc[i].panicked
    /\ bc[i].encCalls < MaxCalls
    /\ IF checksum_unit(bc[i].units).tag = "None"
       THEN bc' = [bc EXCEPT ![i].panicked = TRUE]
       ELSE bc' = [bc EXCEPT ![i].encRet = Some(encode(bc[i].units)),
                             ![i].encCalls = @ + 1]

Next ==
    \E i \in Barcodes :
        \/ New(i)
        \/ RawData(i)
        \/ ChecksumUnit(i)
        \/ Encode(i)

Spec == Init /\ [][Next]_vars

\* ------------------------------------------------------------------ vocabulary of the properties
Built == { i \in Barcodes : bc[i].result = "Ok" }
Attempted == { i \in Barcodes : bc[i].result # "None" }

TableOf(set) ==
    CASE set = "A" -> CODE128_CHARS_A
      [] set = "B" -> CODE128_CHARS_B
      [] set = "C" -> CODE128_CHARS_C

Keys(set) == { TableOf(set)[k][1] : k \in 1..Len(TableOf(set)) }

Digits == {"0", "1", "2", "3", "4", "5", "6", "7", "8", "9"}

DigitVal ==
    [d \in Digits |->
        CASE d = "0" -> 0 [] d = "1" -> 1 [] d = "2" -> 2 [] d = "3" -> 3
          [] d = "4" -> 4 [] d = "5" -> 5 [] d = "6" -> 6 [] d = "7" -> 7
          [] d = "8" -> 8 [] d = "9" -> 9]

SetOfDirective == [x \in {"a", "b", "c"} |->
                      CASE x = "a" -> "A" [] x = "b" -> "B" [] x = "c" -> "C"]

\* The single left-to-right pass of the tokenizer contract: the Units each
\* position is tagged with, and whether the text is malformed (a lone trailing
\* backslash, an unrecognised directive, a non-digit or an unpaired digit in
\* set C).  Table membership of set A / set B symbols is judged separately.
RECURSIVE Scan(_, _, _, _)
Scan(chars, k, set, acc) ==
    IF k > Len(chars) THEN [bad |-> FALSE, units |-> acc]
    ELSE IF chars[k] = "\\" THEN
        IF k = Len(chars) THEN [bad |-> TRUE, units |-> acc]
        ELSE IF chars[k + 1] \in DOMAIN SetOfDirective
             THEN Scan(chars, k + 2, SetOfDirective[chars[k + 1]], acc)
        ELSE IF chars[k + 1] = "\\" /\ set # "C"
             THEN Scan(chars, k + 2, set,
                       Append(acc, [set |-> set, sym |-> <<"\\">>]))
        ELSE [bad |-> TRUE, units |-> acc]
    ELSE IF set = "C" THEN
        IF k < Len(chars) /\ chars[k] \in Digits /\ chars[k + 1] \in Digits
        THEN Scan(chars, k + 2, set,
                  Append(acc, [set |-> set, sym |-> <<chars[k], chars[k + 1]>>]))
        ELSE [bad |-> TRUE, units |-> acc]
    ELSE Scan(chars, k + 1, set, Append(acc, [set |-> set, sym |-> <<chars[k]>>]))

Tokens(chars) == Scan(chars, 1, "A", <<>>)

ZeroUnits(chars) == ~Tokens(chars).bad /\ Tokens(chars).units = <<>>

Unencodable(chars) ==
    \/ Tokens(chars).bad
    \/ \E k \in 1..Len(Tokens(chars).units) :
          /\ Tokens(chars).units[k].set \in {"A", "B"}
          /\ Tokens(chars).units[k].sym \notin
                 Keys(Tokens(chars).units[k].set)

\* number of mid-stream character-set switches in a Unit sequence
NSwitches(units) ==
    Cardinality({ k \in 2..Len(units) : units[k].set # units[k - 1].set })

StartValue == [s \in {"A", "B", "C"} |->
                  CASE s = "A" -> 103 [] s = "B" -> 104 [] s = "C" -> 105]

\* value of a Unit: the two-digit number in set C, the position of the
\* symbol in the table of its set otherwise
UnitValue(u) ==
    IF u.set = "C" THEN 10 * DigitVal[u.sym[1]] + DigitVal[u.sym[2]]
    ELSE (CHOOSE k \in 1..Len(TableOf(u.set)) : TableOf(u.set)[k][1] = u.sym) - 1

RECURSIVE WeightedSum(_, _)
WeightedSum(units, k) ==
    IF k = 0 THEN 0 ELSE UnitValue(units[k]) * k + WeightedSum(units, k - 1)

Modulo103(units) ==
    (StartValue[units[1].set] * 1 + WeightedSum(units, Len(units))) % 103

TablePattern(u) ==
    TableOf(u.set)[CHOOSE k \in 1..Len(TableOf(u.set)) :
                       TableOf(u.set)[k][1] = u.sym][2]

\* first module of the pattern of data Unit k in the stream: after the start
\* pattern, the earlier Units and every switch pattern up to and including
\* the one in front of Unit k
UnitOffset(units, k) ==
    11 * (1 + (k - 1) + NSwitches(SubSeq(units, 1, k)))

\* ------------------------------------------------------------------ properties

\* C1: whenever encode() has returned on a constructed barcode, the length of
\* the returned sequence is 11*(1 + n_data_units + n_switches + 1) + 13 + 1,
\* n_data_units being the length of raw_data().
C1_EncodeLength ==
    \A i \in Built :
        bc[i].encRet.tag = "Some" =>
            Len(bc[i].encRet.val) =
                11 * (1 + Len(bc[i].units) + NSwitches(bc[i].units) + 1) + 13 + 1

\* C2: a text that produces zero data Units (empty, or directives only) makes
\* Code128::new return Err(Error::Length) and constructs no barcode.
C2_ZeroUnitsIsLengthError ==
    \A i \in Attempted :
        ZeroUnits(bc[i].data) =>
            bc[i].result = "Length" /\ bc[i].units = <<>>

\* C3: a text with a character that cannot be encoded in the set active at its
\* position, or with a malformed escape directive, makes Code128::new return
\* Err(Error::Character) and constructs no barcode.
C3_UnencodableIsCharacterError ==
    \A i \in Attempted :
        Unencodable(bc[i].data) =>
            bc[i].result = "Character" /\ bc[i].units = <<>>

\* C4: the Units of a constructed barcode are those of the single
\* left-to-right pass over its text, each tagged with the set active at its
\* position; "\aHE\c1234" gives [A("H"), A("E"), C("12"), C("34")].
C4_TokenizationTagsActiveSet ==
    \A i \in Built :
        ~Tokens(bc[i].data).bad => bc[i].units = Tokens(bc[i].data).units

\* C5: the value checksum_unit() returns is
\* (start*1 + sum of value(u_i)*i) mod 103, a number in 0..102.
C5_ChecksumIsModulo103 ==
    \A i \in Built :
        bc[i].ckRet.tag # "NotCalled" =>
            /\ bc[i].ckRet.tag = "Some"
            /\ UnitValue(bc[i].ckRet.val) = Modulo103(bc[i].units)
            /\ UnitValue(bc[i].ckRet.val) \in 0..102

\* C6: after any sequence of raw_data(), checksum_unit() and encode() calls the
\* barcode still holds, and raw_data() returns, exactly the Unit sequence
\* parse produced at construction: set-tagged data Units and nothing else.
C6_RawDataFrozen ==
    \A i \in Built :
        /\ bc[i].units = bc[i].parsed
        /\ bc[i].rawRet.tag = "Some" => bc[i].rawRet.val = bc[i].parsed
        /\ \A k \in 1..Len(bc[i].units) : bc[i].units[k].set \in {"A", "B", "C"}

C6_Witness ==
    \E i \in Built :
        /\ bc[i].encCalls = MaxCalls
        /\ bc[i].ckRet.tag = "Some"
        /\ bc[i].rawRet.tag = "Some"
        /\ Len(bc[i].rawRet.val) > 0

\* C7: every encode() call on a barcode returns the sequence the previous call
\* returned, whatever was called in between, and two barcodes built from the
\* same text have encoded to the same sequence.
C7_EncodeIdempotent ==
    [][ /\ \A i \in Barcodes :
              bc[i].encRet.tag = "Some" => bc'[i].encRet = bc[i].encRet
        /\ \A i, j \in Barcodes :
              /\ bc'[i].encRet.tag = "Some"
              /\ bc'[j].encRet.tag = "Some"
              /\ bc'[i].data = bc'[j].data
              => bc'[i].encRet = bc'[j].encRet ]_vars

C7_Witness ==
    \E i, j \in Built :
        /\ i # j
        /\ bc[i].data = bc[j].data
        /\ bc[i].encCalls >= 2
        /\ bc[j].encCalls >= 1
        /\ bc[i].rawRet.tag = "Some"
        /\ bc[i].ckRet.tag = "Some"

\* C8: on a constructed barcode checksum_unit() returns Some, and encode()
\* never reaches the "Cannot compute checksum" panic.
C8_ChecksumAlwaysSome ==
    \A i \in Built :
        /\ ~bc[i].panicked
        /\ bc[i].ckRet.tag # "NotCalled" => bc[i].ckRet.tag = "Some"
        /\ bc[i].encCalls > 0 => bc[i].encRet.tag = "Some"

C8_Witness ==
    \E i \in Built :
        /\ bc[i].ckRet.tag = "Some"
        /\ bc[i].encCalls > 0
        /\ bc[i].encRet.tag = "Some"

\* C9: every Unit of a constructed barcode, and every Unit raw_data() returns,
\* has a symbol that is a key of the table of its own tagged set.
C9_UnitsAreTableKeys ==
    \A i \in Built :
        /\ \A k \in 1..Len(bc[i].units) :
              bc[i].units[k].sym \in Keys(bc[i].units[k].set)
        /\ bc[i].rawRet.tag = "Some" =>
              \A k \in 1..Len(bc[i].rawRet.val) :
                  bc[i].rawRet.val[k].sym \in Keys(bc[i].rawRet.val[k].set)

C9_Witness ==
    \E i \in Built :
        /\ Len(bc[i].units) > 0
        /\ bc[i].rawRet.tag = "Some"
        /\ Len(bc[i].rawRet.val) = Len(bc[i].units)

\* C10: the sequence encode() returns is the start pattern, then each data
\* Unit's 11-module pattern from the table of its set (a switch pattern in
\* front of the first Unit of a new set), then the checksum pattern, the
\* 13-module stop pattern and one termination bit, with no leading bit and
\* no separator bit between patterns.
C10_EncodeIsConcatenation ==
    \A i \in Built :
        bc[i].encRet.tag = "Some" =>
            LET enc == bc[i].encRet.val
                units == bc[i].units
                ck == UnitOffset(units, Len(units)) + 11
            IN  /\ Len(enc) = ck + 11 + 13 + 1
                /\ \A k \in 1..Len(units) :
                      SubSeq(enc, UnitOffset(units, k) + 1,
                                  UnitOffset(units, k) + 11)
                          = TablePattern(units[k])
                /\ SubSeq(enc, ck + 1, ck + 11) = checksum_encoding(units)
                /\ \A m \in 1..Len(enc) : enc[m] \in {0, 1}

====
